---- MODULE Spec2Model ----
(***************************************************************************)
(* Registration and waitlist engine of the Events API:                     *)
(* RegistrationService (backend/services.py) over Repository               *)
(* (backend/repository.py), over one DynamoDB table.                       *)
(*                                                                         *)
(* The table is modelled by its items: event METADATA items, user          *)
(* METADATA items and registration items keyed by (EVENT#e, REG#u).        *)
(* Every repository call is one store step; a handler is the sequence of   *)
(* its store steps.  Spec runs every call to completion before the next    *)
(* one starts; SpecConc interleaves the store steps of concurrent calls.   *)
(***************************************************************************)
EXTENDS Integers, Sequences, FiniteSets, TLC

\* ------------------------------------------------------------ bounds
NUsers == 3
NEventIds == 2
MaxCapacity == 2
MaxClock == 5
NProcs == 2

\* the users that were created, and the event the calls are about
Users == 1..NUsers
Events == {1}
\* ids a request may name: one more user id, and the other event ids, name
\* nothing that was ever created
UserIds == 1..(NUsers + 1)
EventIds == 1..NEventIds
Procs == 1..NProcs

\* ------------------------------------------------------------ values
\* Python's None (an absent waitlistPosition); positions are >= 1
None == 0
\* the sort key's default for an absent position
SortDefault == 999
\* get_item's answer for a key that holds no item
NoItem == [absent |-> TRUE]

\* table: the items of the DynamoDB table; clock: what datetime.utcnow() reads;
\* loc: the frame of each request handler's call; start: the table as it was when
\* the first of the concurrent calls began (a record of the past, read by no call)
VARIABLES table, clock, loc, start

vars == <<table, clock, loc, start>>

\* dict.get(key, default)
Get(item, key, default) ==
    IF key \in DOMAIN item THEN item[key] ELSE default

Max(a, b) == IF a >= b THEN a ELSE b

\* ------------------------------------------------------------ repository
\* a check that finds every user
user_exists_Always(tb, user_id) == TRUE

user_exists(tb, user_id) == tb.users[user_id] # NoItem

get_event_raw(tb, event_id) == tb.events[event_id]

\* a read that takes a missing registration for a confirmed one
get_registration_raw_Assumed(tb, event_id, user_id) ==
    IF tb.regs[event_id][user_id] = NoItem
    THEN [registrationStatus |-> "confirmed"]
    ELSE tb.regs[event_id][user_id]

get_registration_raw(tb, event_id, user_id) == tb.regs[event_id][user_id]

\* item["eventId"], item["userId"], ... raise KeyError on an item that lacks them
registration_item_to_dict_ok(item) ==
    {"eventId", "userId", "registrationStatus", "registeredAt"} \subseteq DOMAIN item

\* the event item as create_event writes it
create_event_item(capacity, waitlist_enabled) ==
    [eventCapacity |-> capacity, waitlistEnabled |-> waitlist_enabled,
     registrationCount |-> 0]

\* an update that reaches the METADATA item of every event
update_event_registration_count_AllEvents(tb, event_id, count) ==
    [tb EXCEPT !.events =
        [e \in DOMAIN @ |->
            IF @[e] = NoItem THEN @[e] ELSE [@[e] EXCEPT !.registrationCount = count]]]

\* an update that also drops the registrations of an event whose capacity it
\* lowers below its registrationCount
update_event_Evicting(tb, event_id, existing_item) ==
    [tb EXCEPT !.events[event_id] = existing_item,
               !.regs[event_id] =
                   IF Get(existing_item, "eventCapacity", 0)
                          < Get(existing_item, "registrationCount", 0)
                   THEN [u \in DOMAIN @ |-> NoItem] ELSE @]

\* Repository.update_event: put_item of the whole item it is given
update_event(tb, event_id, existing_item) ==
    [tb EXCEPT !.events[event_id] = existing_item]

\* update_item: SET on an existing item, or an item of the SET attributes alone
update_event_registration_count(tb, event_id, count) ==
    LET item == tb.events[event_id] IN
    [tb EXCEPT !.events[event_id] =
        IF item = NoItem THEN [registrationCount |-> count]
        ELSE [a \in DOMAIN item \cup {"registrationCount"} |->
                 IF a = "registrationCount" THEN count ELSE item[a]]]

create_registration(tb, event_id, user_id, status, registered_at, waitlist_pos) ==
    [tb EXCEPT !.regs[event_id][user_id] =
        [eventId |-> event_id, userId |-> user_id, registrationStatus |-> status,
         registeredAt |-> registered_at, waitlistPosition |-> waitlist_pos,
         GSI1PK |-> user_id]]

\* a delete that closes the gap: the waitlisted registrations behind the deleted
\* one move up by one position
delete_registration_Renumbering(tb, event_id, user_id) ==
    LET gone == Get(tb.regs[event_id][user_id], "waitlistPosition", None) IN
    [tb EXCEPT !.regs[event_id] =
        [v \in DOMAIN @ |->
            IF v = user_id THEN NoItem
            ELSE IF /\ @[v] # NoItem
                    /\ Get(@[v], "registrationStatus", "") = "waitlisted"
                    /\ Get(@[v], "waitlistPosition", None) > gone
                 THEN [@[v] EXCEPT !.waitlistPosition = @ - 1]
                 ELSE @[v]]]

delete_registration(tb, event_id, user_id) ==
    [tb EXCEPT !.regs[event_id][user_id] = NoItem]

\* update_item: SET on an existing item, or an item of the SET attributes alone
update_registration_status(tb, event_id, user_id, status, waitlist_pos) ==
    LET item == tb.regs[event_id][user_id]
        attrs == {"registrationStatus", "waitlistPosition"} IN
    [tb EXCEPT !.regs[event_id][user_id] =
        IF item = NoItem
        THEN [registrationStatus |-> status, waitlistPosition |-> waitlist_pos]
        ELSE [a \in DOMAIN item \cup attrs |->
                 IF a = "registrationStatus" THEN status
                 ELSE IF a = "waitlistPosition" THEN waitlist_pos
                 ELSE item[a]]]

\* the query PK = EVENT#e, SK begins_with REG#, filtered by status: the items in
\* sort-key order, which is the order of the user ids
RECURSIVE QueryFrom(_, _, _, _)
QueryFrom(tb, event_id, status, u) ==
    IF u > NUsers + 1 THEN <<>>
    ELSE LET item == tb.regs[event_id][u]
             rest == QueryFrom(tb, event_id, status, u + 1) IN
         IF item # NoItem /\ Get(item, "registrationStatus", "") = status
         THEN <<item>> \o rest ELSE rest

get_event_registrations(tb, event_id, status) == QueryFrom(tb, event_id, status, 1)

\* key=lambda x: x.get("waitlistPosition") or 999
SortKey(x) ==
    IF Get(x, "waitlistPosition", None) = None THEN SortDefault
    ELSE x.waitlistPosition

\* list.sort is stable: an item goes behind the items whose key is <= its own
RECURSIVE InsertSorted(_, _)
InsertSorted(x, s) ==
    IF s = <<>> THEN <<x>>
    ELSE IF SortKey(x) < SortKey(Head(s)) THEN <<x>> \o s
    ELSE <<Head(s)>> \o InsertSorted(x, Tail(s))

RECURSIVE StableSort(_)
StableSort(s) ==
    IF s = <<>> THEN <<>>
    ELSE InsertSorted(s[Len(s)], StableSort(SubSeq(s, 1, Len(s) - 1)))

get_waitlisted_registrations(tb, event_id) ==
    StableSort(get_event_registrations(tb, event_id, "waitlisted"))

\* _registration_item_to_dict: the five attributes of the response
registration_item_to_dict(item) ==
    [eventId |-> item.eventId, userId |-> item.userId,
     registrationStatus |-> item.registrationStatus,
     registeredAt |-> item.registeredAt,
     waitlistPosition |-> Get(item, "waitlistPosition", None)]

\* the query of the index GSI1 with GSI1PK = USER#user_id: the items that carry
\* that key, in the order of GSI1SK = REG#event_id
RECURSIVE IndexQueryFrom(_, _, _)
IndexQueryFrom(tb, user_id, e) ==
    IF e > NEventIds THEN <<>>
    ELSE LET item == tb.regs[e][user_id]
             rest == IndexQueryFrom(tb, user_id, e + 1) IN
         IF item # NoItem /\ Get(item, "GSI1PK", None) = user_id
         THEN <<item>> \o rest ELSE rest

\* a query that asks the table for the registrations of the first event only
get_user_registrations_OneEvent(tb, user_id) ==
    LET item == tb.regs[1][user_id] IN
    IF item = NoItem THEN <<>> ELSE <<item>>

\* the items of Repository.get_user_registrations, before their conversion
get_user_registrations(tb, user_id) == IndexQueryFrom(tb, user_id, 1)

\* ------------------------------------------------------------ service layer
\* A call's frame: its arguments, its position (pc: the store call it makes next),
\* its local variables and its response.
NewCall(op, pc, event_id, user_id) ==
    [op |-> op, pc |-> pc, event_id |-> event_id, user_id |-> user_id,
     event |-> NoItem, reg_status |-> "", waitlist_pos |-> None, new_reg_count |-> 0,
     now |-> 0, was_confirmed |-> FALSE, reg_count |-> 0, first |-> None,
     result |-> "", results |-> <<>>]

NoCall == NewCall("", "done", None, None)

\* return / raise HTTPException: the event item read and the count to write are
\* dropped; the response and what the call read and decided stay on record
Return(l, result) ==
    [l EXCEPT !.pc = "done", !.result = result, !.event = NoItem,
              !.new_reg_count = 0]

\* a comparison that admits one registration too many
HasCapacity_OffByOne(reg_count, capacity) == reg_count <= capacity

\* if reg_count < capacity
HasCapacity(reg_count, capacity) == reg_count < capacity

\* the count written does not count the new registration
IncrementedCount_Same(reg_count) == reg_count

\* new_reg_count = reg_count + 1
IncrementedCount(reg_count) == reg_count + 1

\* every newcomer gets the head position
NextWaitlistPos_AlwaysFirst(waitlisted) == 1

\* positions counted from the length alone
NextWaitlistPos_FromZero(waitlisted) == Len(waitlisted)

\* waitlist_pos = len(waitlisted) + 1
NextWaitlistPos(waitlisted) == Len(waitlisted) + 1

\* the promotion takes the last of the sorted waitlist
FirstWaitlisted_Last(waitlisted) == waitlisted[Len(waitlisted)]

\* first = waitlisted[0]
FirstWaitlisted(waitlisted) == waitlisted[1]

\* the decrement without its floor
DecrementedCount_NoFloor(reg_count) == reg_count - 1

\* max(0, reg_count - 1)
DecrementedCount(reg_count) == Max(0, reg_count - 1)

\* One store step of RegistrationService.register: w is the world (table, clock),
\* l the call's frame.  datetime.utcnow() reads a clock that has moved on at every
\* reading that is stored.
RegisterStep(w, l) ==
    LET tb == w.table
        e == l.event_id
        u == l.user_id IN
    CASE l.pc = "r_get_event" ->
           LET event == get_event_raw(tb, e) IN
           IF event = NoItem
           THEN [w |-> w, l |-> Return(l, "404 Event not found")]
           ELSE [w |-> w, l |-> [l EXCEPT !.event = event, !.pc = "r_user_exists"]]
      [] l.pc = "r_user_exists" ->
           IF ~user_exists(tb, u)
           THEN [w |-> w, l |-> Return(l, "404 User not found")]
           ELSE [w |-> w, l |-> [l EXCEPT !.pc = "r_get_registration"]]
      [] l.pc = "r_get_registration" ->
           LET item == get_registration_raw(tb, e, u)
               capacity == Get(l.event, "eventCapacity", 0)
               reg_count == Get(l.event, "registrationCount", 0)
               waitlist_enabled == Get(l.event, "waitlistEnabled", FALSE) IN
           IF item # NoItem /\ ~registration_item_to_dict_ok(item)
           THEN [w |-> w, l |-> Return(l, "500 KeyError")]
           ELSE IF item # NoItem
           THEN [w |-> w, l |-> Return(l, "400 Already registered")]
           ELSE IF HasCapacity(reg_count, capacity)
           THEN [w |-> [w EXCEPT !.clock = @ + 1],
                 l |-> [l EXCEPT !.reg_count = reg_count, !.now = w.clock,
                                 !.reg_status = "confirmed", !.waitlist_pos = None,
                                 !.new_reg_count = IncrementedCount(reg_count),
                                 !.pc = "r_create_registration"]]
           ELSE IF waitlist_enabled
           THEN [w |-> [w EXCEPT !.clock = @ + 1],
                 l |-> [l EXCEPT !.reg_count = reg_count, !.now = w.clock,
                                 !.reg_status = "waitlisted",
                                 !.pc = "r_get_waitlisted"]]
           ELSE [w |-> w,
                 l |-> Return([l EXCEPT !.reg_count = reg_count], "400 Event is full")]
      [] l.pc = "r_get_waitlisted" ->
           LET waitlisted == get_waitlisted_registrations(tb, e) IN
           [w |-> w,
            l |-> [l EXCEPT !.waitlist_pos = NextWaitlistPos(waitlisted),
                            !.new_reg_count = l.reg_count,
                            !.pc = "r_create_registration"]]
      [] l.pc = "r_create_registration" ->
           [w |-> [w EXCEPT !.table = create_registration(
                                 tb, e, u, l.reg_status, l.now, l.waitlist_pos)],
            l |-> IF l.reg_status = "confirmed"
                  THEN [l EXCEPT !.pc = "r_update_count"]
                  ELSE Return(l, "201")]
      [] l.pc = "r_update_count" ->
           [w |-> [w EXCEPT !.table = update_event_registration_count(
                                 tb, e, l.new_reg_count)],
            l |-> Return(l, "201")]

\* One store step of RegistrationService.unregister.
UnregisterStep(w, l) ==
    LET tb == w.table
        e == l.event_id
        u == l.user_id IN
    CASE l.pc = "u_get_registration" ->
           LET reg == get_registration_raw(tb, e, u) IN
           IF reg = NoItem
           THEN [w |-> w, l |-> Return(l, "400 Not registered for this event")]
           ELSE [w |-> w,
                 l |-> [l EXCEPT
                          !.was_confirmed =
                              (Get(reg, "registrationStatus", "") = "confirmed"),
                          !.pc = "u_delete_registration"]]
      [] l.pc = "u_delete_registration" ->
           [w |-> [w EXCEPT !.table = delete_registration(tb, e, u)],
            l |-> IF l.was_confirmed
                  THEN [l EXCEPT !.pc = "u_get_event"]
                  ELSE Return(l, "200")]
      [] l.pc = "u_get_event" ->
           LET event == get_event_raw(tb, e) IN
           IF event = NoItem
           THEN [w |-> w, l |-> Return(l, "200")]
           ELSE [w |-> w,
                 l |-> [l EXCEPT !.event = event,
                                 !.reg_count = Get(event, "registrationCount", 1),
                                 !.pc = "u_get_waitlisted"]]
      [] l.pc = "u_get_waitlisted" ->
           LET waitlisted == get_waitlisted_registrations(tb, e) IN
           IF waitlisted # <<>>
           THEN [w |-> w,
                 l |-> [l EXCEPT !.first = FirstWaitlisted(waitlisted).userId,
                                 !.pc = "u_update_status"]]
           ELSE [w |-> w, l |-> [l EXCEPT !.pc = "u_update_count"]]
      [] l.pc = "u_update_status" ->
           [w |-> [w EXCEPT !.table = update_registration_status(
                                 tb, e, l.first, "confirmed", None)],
            l |-> Return(l, "200")]
      [] l.pc = "u_update_count" ->
           [w |-> [w EXCEPT !.table = update_event_registration_count(
                                 tb, e, DecrementedCount(l.reg_count))],
            l |-> Return(l, "200")]

\* RegistrationService.get_user_registrations; it writes nothing
UserRegistrationsCall(w, l) ==
    IF ~user_exists(w.table, l.user_id)
    THEN Return(l, "404 User not found")
    ELSE LET items == get_user_registrations(w.table, l.user_id) IN
         IF \E i \in 1..Len(items) : ~registration_item_to_dict_ok(items[i])
         THEN Return(l, "500 KeyError")
         ELSE Return([l EXCEPT !.results =
                         [i \in 1..Len(items) |-> registration_item_to_dict(items[i])]],
                     "200")

\* One store step of EventService.update_event.  Of the fields of the update only
\* the capacity is kept in the table's model: capacity is the new eventCapacity,
\* or None for an update of other fields.  The item read, with the update
\* applied, is what the call writes back.
UpdateEventStep(w, l, capacity) ==
    CASE l.pc = "ue_get_event" ->
           LET existing == get_event_raw(w.table, l.event_id) IN
           IF existing = NoItem
           THEN [w |-> w, l |-> Return(l, "404 Event not found")]
           ELSE [w |-> w,
                 l |-> [l EXCEPT !.event =
                                    IF capacity = None THEN existing
                                    ELSE [existing EXCEPT !.eventCapacity = capacity],
                                 !.pc = "ue_put_item"]]
      [] l.pc = "ue_put_item" ->
           [w |-> [w EXCEPT !.table = update_event(w.table, l.event_id, l.event)],
            l |-> Return(l, "200")]

Step(w, l) ==
    IF l.op = "register" THEN RegisterStep(w, l) ELSE UnregisterStep(w, l)

\* a call run to completion with no other call in between
RECURSIVE Run(_, _)
Run(w, l) ==
    IF l.pc = "done" THEN [w |-> w, l |-> l]
    ELSE LET r == Step(w, l) IN Run(r.w, r.l)

register(w, event_id, user_id) ==
    Run(w, NewCall("register", "r_get_event", event_id, user_id))

unregister(w, event_id, user_id) ==
    Run(w, NewCall("unregister", "u_get_registration", event_id, user_id))

\* ------------------------------------------------------------ the system
World == [table |-> table, clock |-> clock]

\* The table after the users and the events were created (create_user,
\* create_event) and before any registration: every event has
\* registrationCount 0.
InitTable ==
    {[events |-> [e \in EventIds |-> IF e \in Events THEN ev[e] ELSE NoItem],
      users |-> [u \in UserIds |-> IF u \in Users THEN [userId |-> u] ELSE NoItem],
      regs |-> [e \in EventIds |-> [u \in UserIds |-> NoItem]]] :
        ev \in [Events -> {create_event_item(c, wl) :
                               c \in 1..MaxCapacity, wl \in BOOLEAN}]}

Init ==
    /\ table \in InitTable
    /\ clock = 1
    /\ loc = [p \in Procs |-> NoCall]
    /\ start = NoItem

\* --- calls executed one at a time: the whole handler is one action, and loc[1]
\* keeps the frame of the call that ran last
Register(event_id, user_id) ==
    /\ clock < MaxClock
    /\ LET r == register(World, event_id, user_id) IN
       /\ table' = r.w.table
       /\ clock' = r.w.clock
       /\ loc' = [loc EXCEPT ![1] = r.l]
    /\ UNCHANGED start

Unregister(event_id, user_id) ==
    /\ LET r == unregister(World, event_id, user_id) IN
       /\ table' = r.w.table
       /\ clock' = r.w.clock
       /\ loc' = [loc EXCEPT ![1] = r.l]
    /\ UNCHANGED start

Next ==
    \E e \in EventIds, u \in UserIds :
        \/ Register(e, u)
        \/ Unregister(e, u)

Spec == Init /\ [][Next]_vars

\* --- the same calls, one at a time, after create_user has created every user id
\* of UserIds
InitAllUsers ==
    /\ \E tb \in InitTable :
          table = [tb EXCEPT !.users = [u \in UserIds |-> [userId |-> u]]]
    /\ clock = 1
    /\ loc = [p \in Procs |-> NoCall]
    /\ start = NoItem

SpecAllUsers == InitAllUsers /\ [][Next]_vars

\* --- the same calls, one at a time, after create_event has created every event
\* id of EventIds, the ones outside Events with capacity 1 and the waitlist enabled
InitAllEvents ==
    /\ \E tb \in InitTable :
          table = [tb EXCEPT !.events =
                      [e \in EventIds |-> IF e \in Events THEN tb.events[e]
                                          ELSE create_event_item(1, TRUE)]]
    /\ clock = 1
    /\ loc = [p \in Procs |-> NoCall]
    /\ start = NoItem

GetUserRegistrations(user_id) ==
    /\ loc' = [loc EXCEPT ![1] = UserRegistrationsCall(
                   World, NewCall("get_user_registrations", "g_user_exists",
                                  None, user_id))]
    /\ UNCHANGED <<table, clock, start>>

NextAllEvents ==
    \/ Next
    \/ \E u \in UserIds : GetUserRegistrations(u)

SpecAllEvents == InitAllEvents /\ [][NextAllEvents]_vars

\* --- Register and Unregister calls one at a time, and update_event calls of
\* another request handler whose two store calls they may come between
Updater == NProcs

BeginUpdateEvent(event_id, capacity) ==
    /\ loc[Updater].pc = "done"
    /\ LET r == UpdateEventStep(
                    World, NewCall("update_event", "ue_get_event", event_id, None),
                    capacity) IN
       /\ table' = r.w.table
       /\ loc' = [loc EXCEPT ![Updater] = r.l]
    /\ UNCHANGED <<clock, start>>

FinishUpdateEvent ==
    /\ loc[Updater].pc = "ue_put_item"
    /\ LET r == UpdateEventStep(World, loc[Updater], None) IN
       /\ table' = r.w.table
       /\ loc' = [loc EXCEPT ![Updater] = r.l]
    /\ UNCHANGED <<clock, start>>

NextUpdate ==
    \/ \E e \in EventIds, u \in UserIds :
        \/ Register(e, u)
        \/ Unregister(e, u)
    \/ \E e \in EventIds, c \in {None} \cup (1..MaxCapacity) : BeginUpdateEvent(e, c)
    \/ FinishUpdateEvent

SpecUpdate == Init /\ [][NextUpdate]_vars

\* --- calls one at a time, some of them cut short: a store call (a boto3 call of
\* the repository) raises, nothing in the service or the repository catches it,
\* the store calls made before it stay made and the request ends with a 500
RegisterPcs ==
    {"r_get_event", "r_user_exists", "r_get_registration", "r_get_waitlisted",
     "r_create_registration", "r_update_count"}

UnregisterPcs ==
    {"u_get_registration", "u_delete_registration", "u_get_event",
     "u_get_waitlisted", "u_update_status", "u_update_count"}

\* the call run up to its store call at, which it has not made yet
RECURSIVE RunUntil(_, _, _)
RunUntil(w, l, at) ==
    IF l.pc = "done" \/ l.pc = at THEN [w |-> w, l |-> l]
    ELSE LET r == Step(w, l) IN RunUntil(r.w, r.l, at)

FailedRegister(event_id, user_id, at) ==
    /\ clock < MaxClock
    /\ LET r == RunUntil(World, NewCall("register", "r_get_event", event_id, user_id),
                         at) IN
       /\ r.l.pc = at
       /\ table' = r.w.table
       /\ clock' = r.w.clock
       /\ loc' = [loc EXCEPT ![1] = Return(r.l, "500 ClientError")]
    /\ UNCHANGED start

FailedUnregister(event_id, user_id, at) ==
    /\ LET r == RunUntil(World,
                         NewCall("unregister", "u_get_registration", event_id, user_id),
                         at) IN
       /\ r.l.pc = at
       /\ table' = r.w.table
       /\ clock' = r.w.clock
       /\ loc' = [loc EXCEPT ![1] = Return(r.l, "500 ClientError")]
    /\ UNCHANGED start

NextFail ==
    \/ Next
    \/ \E e \in EventIds, u \in UserIds :
        \/ \E at \in RegisterPcs : FailedRegister(e, u, at)
        \/ \E at \in UnregisterPcs : FailedUnregister(e, u, at)

SpecFail == Init /\ [][NextFail]_vars

\* --- concurrent calls: each request handler p takes up one call and makes its
\* store calls one at a time, interleaved with the other handlers'; taking up a
\* call is its first store call.  Before the first of them begins and after the
\* last of them has returned, calls run one at a time.
NoneBegun == \A p \in Procs : loc[p] = NoCall

AllReturned == \A p \in Procs : loc[p] # NoCall /\ loc[p].pc = "done"

Quiet == NoneBegun \/ AllReturned

SerialRegister(event_id, user_id) ==
    /\ Quiet
    /\ clock < MaxClock
    /\ LET r == register(World, event_id, user_id) IN
       /\ table' = r.w.table
       /\ clock' = r.w.clock
    /\ UNCHANGED loc
    /\ UNCHANGED start

SerialUnregister(event_id, user_id) ==
    /\ Quiet
    /\ LET r == unregister(World, event_id, user_id) IN
       /\ table' = r.w.table
       /\ clock' = r.w.clock
    /\ UNCHANGED loc
    /\ UNCHANGED start

BeginRegister(p, event_id, user_id) ==
    /\ loc[p] = NoCall
    /\ LET r == Step(World, NewCall("register", "r_get_event", event_id, user_id)) IN
       /\ table' = r.w.table
       /\ clock' = r.w.clock
       /\ loc' = [loc EXCEPT ![p] = r.l]
    /\ start' = IF NoneBegun THEN table ELSE start

BeginUnregister(p, event_id, user_id) ==
    /\ loc[p] = NoCall
    /\ LET r == Step(World,
                     NewCall("unregister", "u_get_registration", event_id, user_id)) IN
       /\ table' = r.w.table
       /\ clock' = r.w.clock
       /\ loc' = [loc EXCEPT ![p] = r.l]
    /\ start' = IF NoneBegun THEN table ELSE start

StoreStep(p) ==
    /\ loc[p].pc # "done"
    /\ LET r == Step(World, loc[p]) IN
       /\ table' = r.w.table
       /\ clock' = r.w.clock
       /\ loc' = [loc EXCEPT ![p] = r.l]
    /\ UNCHANGED start

NextConc ==
    \/ \E e \in Events, u \in Users :
        \/ SerialRegister(e, u)
        \/ SerialUnregister(e, u)
    \/ \E p \in Procs, e \in Events, u \in Users :
        \/ BeginRegister(p, e, u)
        \/ BeginUnregister(p, e, u)
    \/ \E p \in Procs : StoreStep(p)

SpecConc == Init /\ [][NextConc]_vars

\* ------------------------------------------------------------ properties
\* what the properties read of a table tb
Status(tb, e, u) ==
    IF tb.regs[e][u] = NoItem THEN "" ELSE Get(tb.regs[e][u], "registrationStatus", "")

ConfirmedUsers(tb, e) == {u \in UserIds : Status(tb, e, u) = "confirmed"}

WaitlistedUsers(tb, e) == {u \in UserIds : Status(tb, e, u) = "waitlisted"}

Position(tb, e, u) == Get(tb.regs[e][u], "waitlistPosition", None)

RegisteredAt(tb, e, u) == Get(tb.regs[e][u], "registeredAt", None)

Count(tb, e) == Get(tb.events[e], "registrationCount", 0)

Capacity(tb, e) == Get(tb.events[e], "eventCapacity", 0)

WaitlistEnabled(tb, e) == Get(tb.events[e], "waitlistEnabled", FALSE)

\* the frame of the call that ran last, when calls run one at a time
last == loc[1]

\* a step of Spec is the call op(e, u): every step of Spec leaves that call's
\* frame in loc[1]
IsCall(op, e, u) ==
    /\ last'.op = op
    /\ last'.event_id = e
    /\ last'.user_id = u

\* C1: with calls run one at a time, after every call the stored confirmedCount
\* of an event is the number of its confirmed registrations and is at most its
\* capacity.
C1_CountIsConfirmed ==
    \A e \in Events :
        /\ Count(table, e) = Cardinality(ConfirmedUsers(table, e))
        /\ Count(table, e) <= Capacity(table, e)

\* C1's case: a confirmed user has unregistered from a full event and a
\* waitlisted user took the place, somebody else still waiting.
C1_Witness ==
    /\ last.op = "unregister" /\ last.result = "200" /\ last.was_confirmed
    /\ last.first # None
    /\ Count(table, last.event_id) = Capacity(table, last.event_id)
    /\ WaitlistedUsers(table, last.event_id) # {}

\* two handlers whose calls were the only ones between the calls run one at a
\* time: register calls for one event that both reached the capacity check
ConcurrentRegisters(p, q) ==
    /\ p # q
    /\ \A r \in Procs \ {p, q} : loc[r] = NoCall
    /\ loc[p].op = "register" /\ loc[q].op = "register"
    /\ loc[p].pc = "done" /\ loc[q].pc = "done"
    /\ loc[p].event_id = loc[q].event_id

\* C2: two concurrent Register calls of distinct users for one event that both
\* read confirmedCount = capacity - 1 do not both end confirmed: exactly one is
\* confirmed, the other is waitlisted or rejected with Full.
C2_ExactlyOneConfirms ==
    \A p, q \in Procs :
        LET e == loc[p].event_id
            ended == {"201", "400 Event is full"} IN
        ( /\ ConcurrentRegisters(p, q)
          /\ loc[p].user_id # loc[q].user_id
          /\ loc[p].result \in ended /\ loc[q].result \in ended
          /\ loc[p].reg_count = Capacity(table, e) - 1
          /\ loc[q].reg_count = Capacity(table, e) - 1 )
        => /\ (loc[p].reg_status = "confirmed") # (loc[q].reg_status = "confirmed")
           /\ \A r \in {p, q} :
                 loc[r].reg_status # "confirmed" =>
                     IF WaitlistEnabled(table, e)
                     THEN loc[r].result = "201" /\ loc[r].reg_status = "waitlisted"
                     ELSE loc[r].result = "400 Event is full"

\* C3: the waitlist is first in, first out: of two users waitlisted on one event,
\* the one registered later is never promoted while the one registered earlier
\* still waits.
C3_Fifo ==
    [][\A e \in Events, a, b \in Users :
          ( /\ Status(table, e, a) = "waitlisted"
            /\ Status(table, e, b) = "waitlisted"
            /\ RegisteredAt(table, e, a) < RegisteredAt(table, e, b) )
          => ~( /\ Status(table', e, b) = "confirmed"
                /\ Status(table', e, a) = "waitlisted" )]_vars

\* C4: no two waitlisted registrations of one event have the same
\* waitlistPosition.
C4_DistinctPositions ==
    \A e \in Events, a, b \in Users :
        ( /\ a # b
          /\ Status(table, e, a) = "waitlisted"
          /\ Status(table, e, b) = "waitlisted" )
        => Position(table, e, a) # Position(table, e, b)

\* the largest waitlistPosition among the waitlisted registrations, 0 if none
MaxPosition(tb, e) ==
    IF WaitlistedUsers(tb, e) = {} THEN 0
    ELSE CHOOSE m \in {Position(tb, e, u) : u \in WaitlistedUsers(tb, e)} :
             \A u \in WaitlistedUsers(tb, e) : Position(tb, e, u) <= m

\* C5: a Register that enqueues a user gives it the position one greater than
\* the largest position among the event's waitlisted registrations, 1 if none.
C5_PositionIsMaxPlusOne ==
    [][\A e \in Events, u \in Users :
          ( /\ Status(table, e, u) = ""
            /\ Status(table', e, u) = "waitlisted" )
          => Position(table', e, u) = MaxPosition(table, e) + 1]_vars

\* the registrations of event e other than those of the users in us are the same
\* in tb1 and tb2
SameRegsExcept(tb1, tb2, e, us) ==
    \A v \in UserIds \ us : tb1.regs[e][v] = tb2.regs[e][v]

\* C6: Unregister of a confirmed user while the event has a waitlisted
\* registration leaves confirmedCount unchanged and promotes exactly one
\* registration, one of minimum waitlistPosition among the waitlisted: its
\* status becomes confirmed, its position is cleared, and no other registration
\* changes.
C6_PromotesHead ==
    [][\A e \in Events, u \in Users :
          ( /\ IsCall("unregister", e, u)
            /\ Status(table, e, u) = "confirmed"
            /\ WaitlistedUsers(table, e) # {} )
          => /\ Count(table', e) = Count(table, e)
             /\ table'.regs[e][u] = NoItem
             /\ \E h \in WaitlistedUsers(table, e) :
                   /\ \A v \in WaitlistedUsers(table, e) :
                         Position(table, e, h) <= Position(table, e, v)
                   /\ table'.regs[e][h] =
                          [table.regs[e][h] EXCEPT !.registrationStatus = "confirmed",
                                                   !.waitlistPosition = None]
                   /\ SameRegsExcept(table, table', e, {u, h})]_vars

\* C6's case: a confirmed user has unregistered, the user at waitlistPosition 1
\* was promoted and the user at position 2 still waits.
C6_Witness ==
    /\ last.op = "unregister" /\ last.result = "200" /\ last.was_confirmed
    /\ last.first # None
    /\ Status(table, last.event_id, last.first) = "confirmed"
    /\ \E v \in Users :
          /\ Status(table, last.event_id, v) = "waitlisted"
          /\ Position(table, last.event_id, v) = 2

\* C9: on an event with the waitlist disabled and confirmedCount = capacity, a
\* Register by a user with no registration fails with Full, creates no record and
\* leaves confirmedCount unchanged.
C9_FullRejects ==
    [][\A e \in Events, u \in Users :
          ( /\ IsCall("register", e, u)
            /\ ~WaitlistEnabled(table, e)
            /\ Count(table, e) = Capacity(table, e)
            /\ Status(table, e, u) = "" )
          => /\ last'.result = "400 Event is full"
             /\ table' = table]_vars

\* C9's case: a Register was rejected with Full on an event of capacity 2 with
\* the waitlist disabled and two confirmed registrations.
C9_Witness ==
    /\ last.op = "register" /\ last.result = "400 Event is full"
    /\ ~WaitlistEnabled(table, last.event_id)
    /\ Capacity(table, last.event_id) = 2
    /\ Count(table, last.event_id) = 2
    /\ table.regs[last.event_id][last.user_id] = NoItem

\* C10: a successful Register creates exactly one registration record, that of
\* (eventId, userId): with confirmedCount < capacity it is confirmed, has no
\* waitlistPosition and confirmedCount grows by one; a waitlisted one leaves
\* confirmedCount unchanged; confirmedCount changes by 0 or +1 only.
C10_RegisterCreatesOne ==
    [][\A e \in Events, u \in Users :
          ( /\ IsCall("register", e, u)
            /\ last'.result = "201" )
          => /\ table.regs[e][u] = NoItem
             /\ table'.regs[e][u] # NoItem
             /\ SameRegsExcept(table, table', e, {u})
             /\ \A e2 \in EventIds \ {e} : table'.regs[e2] = table.regs[e2]
             /\ Count(table, e) < Capacity(table, e) =>
                   /\ Status(table', e, u) = "confirmed"
                   /\ Position(table', e, u) = None
                   /\ Count(table', e) = Count(table, e) + 1
             /\ Count(table, e) >= Capacity(table, e) =>
                   /\ Status(table', e, u) = "waitlisted"
                   /\ Count(table', e) = Count(table, e)
             /\ Count(table', e) - Count(table, e) \in {0, 1}]_vars

\* C10's case: Registers have confirmed two users on an event of capacity 2, and
\* the last one has waitlisted a third.
C10_Witness ==
    /\ last.op = "register" /\ last.result = "201"
    /\ last.reg_status = "waitlisted"
    /\ Status(table, last.event_id, last.user_id) = "waitlisted"
    /\ Count(table, last.event_id) = 2
    /\ Cardinality(ConfirmedUsers(table, last.event_id)) = 2

\* C7: Unregister of a confirmed user while the event has no waitlisted
\* registration sets confirmedCount to its value minus one, and leaves it 0 when
\* it was 0; confirmedCount is never negative, in the states between the store
\* calls of concurrent calls either.  (A step of SpecConc that leaves every frame
\* unchanged is a whole call, and one that deletes the record of u is
\* Unregister(e, u).)
C7_DecrementFloored ==
    /\ [][\A e \in Events, u \in Users :
             ( /\ UNCHANGED loc
               /\ Status(table, e, u) = "confirmed"
               /\ table'.regs[e][u] = NoItem
               /\ WaitlistedUsers(table, e) = {} )
             => Count(table', e) =
                    IF Count(table, e) = 0 THEN 0 ELSE Count(table, e) - 1]_vars
    /\ [](\A e \in EventIds : Count(table, e) >= 0)

\* C7's case: two concurrent Registers both read confirmedCount 0 and both
\* wrote 1; the two confirmed users, the only ones ever registered, have since
\* unregistered, the first taking confirmedCount to 0 and the second finding it 0.
C7_Witness ==
    /\ clock = 3
    /\ \E p, q \in Procs :
          /\ ConcurrentRegisters(p, q)
          /\ loc[p].user_id # loc[q].user_id
          /\ \A r \in {p, q} :
                /\ loc[r].result = "201" /\ loc[r].reg_status = "confirmed"
                /\ loc[r].reg_count = 0
          /\ \A u \in UserIds : table.regs[loc[p].event_id][u] = NoItem
          /\ Count(table, loc[p].event_id) = 0

\* C8 (its concurrent half): of two Register calls for the same (event, user)
\* that run concurrently, at most one succeeds.
C8_AtMostOneSucceeds ==
    \A p, q \in Procs :
        ( /\ ConcurrentRegisters(p, q)
          /\ loc[p].user_id = loc[q].user_id )
        => ~(loc[p].result = "201" /\ loc[q].result = "201")

\* a step of SpecConc with which the last of the concurrent calls returns
LastReturns == ~AllReturned /\ AllReturned'

\* C11: when every handler runs a Register, for distinct users, against an event
\* that had no registration when they began, with capacity c below their number
\* and the waitlist enabled, then as the last of them returns exactly c
\* registrations are confirmed, the others are waitlisted and confirmedCount is c.
C11_ConcurrentRegistersFill ==
    [][\A e \in Events :
          ( /\ LastReturns
            /\ \A p \in Procs : /\ loc'[p].op = "register"
                                /\ loc'[p].event_id = e
                                /\ loc'[p].result = "201"
            /\ \A p, q \in Procs : p # q => loc'[p].user_id # loc'[q].user_id
            /\ \A u \in UserIds : start'.regs[e][u] = NoItem
            /\ Capacity(start', e) < NProcs
            /\ WaitlistEnabled(start', e) )
          => /\ Cardinality(ConfirmedUsers(table', e)) = Capacity(start', e)
             /\ Cardinality(WaitlistedUsers(table', e)) = NProcs - Capacity(start', e)
             /\ Count(table', e) = Capacity(start', e)]_vars

\* C12: concurrent Register calls of distinct users against an event that was
\* full, with the waitlist enabled, when they began: the waitlisted registrations
\* they create have different waitlistPositions.
C12_ConcurrentPositionsDiffer ==
    \A p, q \in Procs :
        LET e == loc[p].event_id IN
        ( /\ ConcurrentRegisters(p, q)
          /\ loc[p].user_id # loc[q].user_id
          /\ Count(start, e) = Capacity(start, e)
          /\ WaitlistEnabled(start, e)
          /\ loc[p].result = "201" /\ loc[p].reg_status = "waitlisted"
          /\ loc[q].result = "201" /\ loc[q].reg_status = "waitlisted" )
        => loc[p].waitlist_pos # loc[q].waitlist_pos

\* C13: the stored confirmedCount of an event is at least 0 and at most the
\* event's capacity in every reachable state, the states between the store calls
\* of interleaved Register and Unregister calls included.
C13_CountWithinCapacity ==
    \A e \in Events :
        /\ 0 <= Count(table, e)
        /\ Count(table, e) <= Capacity(table, e)

\* C13's case: a Register and an Unregister are interleaved on one event; the
\* Register has written confirmedCount = capacity while the Unregister, its
\* record deleted, is about to write the count it computed from an older read.
C13_Witness ==
    \E p, q \in Procs :
        LET e == loc[p].event_id IN
        /\ loc[p].op = "register" /\ loc[p].result = "201"
        /\ loc[p].reg_status = "confirmed"
        /\ loc[q].op = "unregister" /\ loc[q].event_id = e
        /\ loc[q].pc = "u_update_count"
        /\ Count(table, e) = Capacity(table, e)
        /\ Cardinality(ConfirmedUsers(table, e)) < Count(table, e)

\* C14: when the handlers run Unregister calls concurrently for distinct users
\* that were confirmed on one event when the calls began, then as the last of
\* them returns confirmedCount is the number of confirmed registrations.
C14_ConcurrentUnregistersConsistent ==
    [][\A e \in Events :
          ( /\ LastReturns
            /\ \A p \in Procs : /\ loc'[p].op = "unregister"
                                /\ loc'[p].event_id = e
                                /\ Status(start', e, loc'[p].user_id) = "confirmed"
            /\ \A p, q \in Procs : p # q => loc'[p].user_id # loc'[q].user_id )
          => Count(table', e) = Cardinality(ConfirmedUsers(table', e))]_vars

\* C15: an Unregister of a confirmed user and a Register of a user with no
\* registration run concurrently on an event that was full, with the waitlist
\* enabled and empty, when they began: as the later of them returns the new user
\* is confirmed and confirmedCount is the capacity.
C15_UnregisterRegisterSerializable ==
    [][\A e \in Events, p, q \in Procs :
          ( /\ LastReturns
            /\ \A r \in Procs \ {p, q} : loc'[r] = NoCall
            /\ loc'[p].op = "register" /\ loc'[p].event_id = e
            /\ loc'[q].op = "unregister" /\ loc'[q].event_id = e
            /\ Count(start', e) = Capacity(start', e)
            /\ WaitlistEnabled(start', e)
            /\ WaitlistedUsers(start', e) = {}
            /\ Status(start', e, loc'[q].user_id) = "confirmed"
            /\ start'.regs[e][loc'[p].user_id] = NoItem )
          => /\ Status(table', e, loc'[p].user_id) = "confirmed"
             /\ Count(table', e) = Capacity(table', e)]_vars

\* C16: an Unregister changes the waitlistPosition of no registration that is
\* waitlisted after it, and the waitlist as the engine reads it is the one before
\* the call without the registrations that left it; an Unregister of a waitlisted
\* user deletes that record and changes neither confirmedCount nor any other
\* record.
C16_UnregisterKeepsPositions ==
    [][\A e \in Events, u \in Users :
          IsCall("unregister", e, u)
          => /\ \A v \in UserIds :
                   Status(table', e, v) = "waitlisted"
                   => /\ Status(table, e, v) = "waitlisted"
                      /\ Position(table', e, v) = Position(table, e, v)
             /\ get_waitlisted_registrations(table', e) =
                    SelectSeq(get_waitlisted_registrations(table, e),
                              LAMBDA x : Status(table', e, x.userId) = "waitlisted")
             /\ Status(table, e, u) = "waitlisted"
                => /\ table'.regs[e][u] = NoItem
                   /\ Count(table', e) = Count(table, e)
                   /\ SameRegsExcept(table, table', e, {u})]_vars

\* C16's case: the user at waitlistPosition 1 has unregistered and the user
\* behind it is still waitlisted at position 2, nobody at position 1.
C16_Witness ==
    /\ last.op = "unregister" /\ last.result = "200" /\ ~last.was_confirmed
    /\ \E v \in Users :
          /\ Status(table, last.event_id, v) = "waitlisted"
          /\ Position(table, last.event_id, v) = 2
    /\ \A v \in Users :
          Status(table, last.event_id, v) = "waitlisted"
          => Position(table, last.event_id, v) # 1

\* C17: a Register that names an event or a user that does not exist fails with
\* 404, creates no registration and changes no confirmedCount: the table is as
\* it was.
C17_RegisterNotFound ==
    [][\A e \in EventIds, u \in UserIds :
          ( /\ IsCall("register", e, u)
            /\ (table.events[e] = NoItem \/ table.users[u] = NoItem) )
          => /\ last'.result = IF table.events[e] = NoItem
                               THEN "404 Event not found"
                               ELSE "404 User not found"
             /\ table' = table]_vars

\* C17's case: a Register by a user that was never created was rejected with 404
\* on an existing event that had room for a confirmed registration.
C17_Witness ==
    /\ last.op = "register" /\ last.result = "404 User not found"
    /\ table.users[last.user_id] = NoItem
    /\ table.events[last.event_id] # NoItem
    /\ Count(table, last.event_id) < Capacity(table, last.event_id)
    /\ ConfirmedUsers(table, last.event_id) # {}

\* C18: an Unregister for an (event, user) pair with no registration fails with
\* 400 'Not registered for this event', deletes nothing, promotes nobody and
\* leaves confirmedCount unchanged: the table is as it was.
C18_UnregisterNotRegistered ==
    [][\A e \in EventIds, u \in UserIds :
          ( /\ IsCall("unregister", e, u)
            /\ table.regs[e][u] = NoItem )
          => /\ last'.result = "400 Not registered for this event"
             /\ table' = table]_vars

\* C18's case: an Unregister of a user with no registration was rejected on a
\* full event with somebody on the waitlist, who stays there.
C18_Witness ==
    /\ last.op = "unregister"
    /\ last.result = "400 Not registered for this event"
    /\ last.event_id \in Events
    /\ Count(table, last.event_id) = Capacity(table, last.event_id)
    /\ WaitlistedUsers(table, last.event_id) # {}

\* what the trace Register(u1), Register(u2), Register(u3), Register(u4),
\* Unregister(u1), Unregister(u4) on event e yields from the world w0, each call
\* run on the world the one before it left
ScenarioHolds(w0, e, u1, u2, u3, u4) ==
    LET r1 == register(w0, e, u1)
        r2 == register(r1.w, e, u2)
        r3 == register(r2.w, e, u3)
        r4 == register(r3.w, e, u4)
        r5 == unregister(r4.w, e, u1)
        r6 == unregister(r5.w, e, u4)
        t2 == r2.w.table
        t4 == r4.w.table
        t5 == r5.w.table
        t6 == r6.w.table IN
    /\ \A r \in {r1, r2, r3, r4} : r.l.result = "201"
    /\ r5.l.result = "200" /\ r6.l.result = "200"
    /\ ConfirmedUsers(t2, e) = {u1, u2} /\ Count(t2, e) = 2
    /\ Status(r3.w.table, e, u3) = "waitlisted" /\ Position(r3.w.table, e, u3) = 1
    /\ ConfirmedUsers(t4, e) = {u1, u2} /\ WaitlistedUsers(t4, e) = {u3, u4}
    /\ Position(t4, e, u3) = 1 /\ Position(t4, e, u4) = 2
    /\ Count(t4, e) = 2
    /\ t5.regs[e][u1] = NoItem
    /\ ConfirmedUsers(t5, e) = {u2, u3} /\ WaitlistedUsers(t5, e) = {u4}
    /\ Count(t5, e) = 2
    /\ t6.regs[e][u4] = NoItem
    /\ ConfirmedUsers(t6, e) = {u2, u3} /\ WaitlistedUsers(t6, e) = {}
    /\ Count(t6, e) = 2

\* C19: on an event with capacity 2, the waitlist enabled and no registration,
\* the trace Register(u1), Register(u2), Register(u3), Register(u4),
\* Unregister(u1), Unregister(u4) of four distinct users confirms u1 and u2,
\* waitlists u3 at position 1 and u4 at position 2, promotes u3 with
\* confirmedCount still 2, removes u4, and ends with confirmedCount 2, exactly u2
\* and u3 confirmed and nobody waitlisted.
C19_ScenarioTrace ==
    \A e \in Events, u1, u2, u3, u4 \in UserIds :
        ( /\ Cardinality({u1, u2, u3, u4}) = 4
          /\ \A u \in {u1, u2, u3, u4} : user_exists(table, u)
          /\ Capacity(table, e) = 2 /\ WaitlistEnabled(table, e)
          /\ Count(table, e) = 0
          /\ \A u \in UserIds : table.regs[e][u] = NoItem )
        => ScenarioHolds(World, e, u1, u2, u3, u4)

\* C19's case: the end of the trace.  Four Registers have succeeded; the users
\* registered second and third are the confirmed ones, the first and the fourth
\* are gone, the fourth by the last call, an Unregister of a waitlisted user.
C19_Witness ==
    LET e == last.event_id IN
    /\ last.op = "unregister" /\ last.result = "200" /\ ~last.was_confirmed
    /\ clock = 5
    /\ Capacity(table, e) = 2 /\ WaitlistEnabled(table, e) /\ Count(table, e) = 2
    /\ WaitlistedUsers(table, e) = {}
    /\ {RegisteredAt(table, e, u) : u \in ConfirmedUsers(table, e)} = {2, 3}
    /\ Cardinality({u \in UserIds : table.regs[e][u] # NoItem}) = 2

\* C20: a Register or Unregister that fails at one of its store calls leaves
\* confirmedCount equal to the number of confirmed registrations, if it was
\* before the call: no confirmed registration is created without the increment,
\* none is deleted without a promotion or the decrement.
C20_FailedCallKeepsCount ==
    [][\A e \in Events :
          ( /\ last'.result = "500 ClientError"
            /\ last'.event_id = e
            /\ Count(table, e) = Cardinality(ConfirmedUsers(table, e)) )
          => Count(table', e) = Cardinality(ConfirmedUsers(table', e))]_vars

\* the items of event e2 are the same in tb1 and tb2
SameEvent(tb1, tb2, e2) ==
    /\ tb1.events[e2] = tb2.events[e2]
    /\ tb1.regs[e2] = tb2.regs[e2]

\* every store call that the call l can come to make, run alone from the world
\* w, leaves the items of the events other than its own as they were
StoreCallsKeepOtherEvents(w, l) ==
    \A at \in RegisterPcs \cup UnregisterPcs :
        LET r == RunUntil(w, l, at) IN
        r.l.pc = at =>
            \A e2 \in EventIds \ {l.event_id} :
                SameEvent(r.w.table, Step(r.w, r.l).w.table, e2)

\* C21: a Register or Unregister on an event e1 leaves the confirmedCount, the
\* capacity and every registration record of every other event e2 unchanged,
\* however the calls on e1 and on e2 alternate; so does each single store call
\* of such a call.
C21_OtherEventsUnchanged ==
    /\ [][\A e1 \in EventIds :
             ( /\ last'.op \in {"register", "unregister"}
               /\ last'.event_id = e1 )
             => \A e2 \in EventIds \ {e1} : SameEvent(table, table', e2)]_vars
    /\ [](\A e1 \in EventIds, u \in UserIds :
             /\ StoreCallsKeepOtherEvents(
                    World, NewCall("register", "r_get_event", e1, u))
             /\ StoreCallsKeepOtherEvents(
                    World, NewCall("unregister", "u_get_registration", e1, u)))

\* C21's case: an Unregister on one event has promoted a waitlisted user there,
\* while another event holds a confirmed and a waitlisted registration.
C21_Witness ==
    /\ last.op = "unregister" /\ last.result = "200" /\ last.first # None
    /\ \E e2 \in EventIds \ {last.event_id} :
          /\ ConfirmedUsers(table, e2) # {}
          /\ WaitlistedUsers(table, e2) # {}

\* the registrations of user u that exist in tb, over all events, as responses
RegistrationsOf(tb, u) ==
    {[eventId |-> e, userId |-> u,
      registrationStatus |-> Status(tb, e, u),
      registeredAt |-> RegisteredAt(tb, e, u),
      waitlistPosition |-> Position(tb, e, u)] :
        e \in {e2 \in EventIds : tb.regs[e2][u] # NoItem}}

\* C25: ListUserRegistrations fails with 404 for a user that does not exist;
\* for an existing user, after any sequence of Register and Unregister calls, it
\* returns the registrations of that user that exist, over all events, each once
\* and with its current status and waitlistPosition.
C25_ListsUserRegistrations ==
    last.op = "get_user_registrations" =>
        IF table.users[last.user_id] = NoItem
        THEN last.result = "404 User not found"
        ELSE /\ last.result = "200"
             /\ {last.results[i] : i \in 1..Len(last.results)} =
                    RegistrationsOf(table, last.user_id)
             /\ Len(last.results) = Cardinality(RegistrationsOf(table, last.user_id))

\* C25's case: the list of a user that is confirmed on one event, after a
\* promotion, and waitlisted on another, while another user's registration has
\* been deleted.
C25_Witness ==
    /\ last.op = "get_user_registrations" /\ last.result = "200"
    /\ Len(last.results) = 2
    /\ \E i, j \in 1..2 :
          /\ last.results[i].registrationStatus = "confirmed"
          /\ last.results[i].registeredAt > 1
          /\ last.results[j].registrationStatus = "waitlisted"
    /\ \E e \in EventIds, v \in Users :
          /\ table.regs[e][v] = NoItem
          /\ \E u \in Users : RegisteredAt(table, e, u) > 1

\* a step of SpecUpdate that is the put_item of an update_event call on event e
UpdateWrites(e) ==
    /\ loc[Updater].op = "update_event" /\ loc[Updater].pc = "ue_put_item"
    /\ loc[Updater].event_id = e
    /\ loc'[Updater].pc = "done"

\* C22: update_event never changes an event's confirmedCount, Register and
\* Unregister calls on the event having run between its read and its write or
\* not.
C22_UpdateKeepsCount ==
    [][\A e \in Events : UpdateWrites(e) => Count(table', e) = Count(table, e)]_vars

\* C23: an update_event that lowers the capacity below the confirmedCount
\* removes no registration and changes none; and a Register on an event whose
\* confirmedCount is not below its capacity, lowered or not, does not end
\* confirmed.
C23_LoweredCapacityKeepsRegistrations ==
    [][\A e \in Events :
          /\ ( /\ UpdateWrites(e)
               /\ Get(loc[Updater].event, "eventCapacity", 0) < Count(table, e) )
             => table'.regs = table.regs
          /\ ( /\ last' # last
               /\ last'.op = "register" /\ last'.event_id = e
               /\ Count(table, e) >= Capacity(table, e) )
             => /\ last'.reg_status # "confirmed"
                /\ ConfirmedUsers(table', e) = ConfirmedUsers(table, e)
                /\ Count(table', e) = Count(table, e)]_vars

\* C23's case: the capacity of an event with two confirmed registrations was
\* lowered to 1; both are still confirmed, and the Register that followed has
\* waitlisted its user.
C23_Witness ==
    LET e == last.event_id IN
    /\ loc[Updater].op = "update_event" /\ loc[Updater].result = "200"
    /\ last.op = "register" /\ last.result = "201" /\ last.reg_status = "waitlisted"
    /\ Capacity(table, e) = 1 /\ Count(table, e) = 2
    /\ Cardinality(ConfirmedUsers(table, e)) = 2
    /\ Status(table, e, last.user_id) = "waitlisted"

\* the responses the handlers raise or return themselves
TypedResults ==
    {"201", "200", "404 Event not found", "404 User not found",
     "400 Already registered", "400 Event is full",
     "400 Not registered for this event"}

\* the store calls a call at pc can still come to make, at most
StepsLeft(pc) ==
    CASE pc = "r_get_event" -> 6
      [] pc = "r_user_exists" -> 5
      [] pc = "r_get_registration" -> 4
      [] pc = "r_get_waitlisted" -> 3
      [] pc = "r_create_registration" -> 2
      [] pc = "r_update_count" -> 1
      [] pc = "u_get_registration" -> 5
      [] pc = "u_delete_registration" -> 4
      [] pc = "u_get_event" -> 3
      [] pc = "u_get_waitlisted" -> 2
      [] pc = "u_update_status" -> 1
      [] pc = "u_update_count" -> 1
      [] OTHER -> 0

\* C24: every Register and Unregister call ends within a bounded number of store
\* calls, each store call taking it nearer to its end whatever the other calls
\* do, and it ends having committed its writes or with a typed error; so does a
\* call made after concurrent calls have returned.
C24_CallsEndTyped ==
    /\ [][\A p \in Procs :
             (loc[p].pc # "done" /\ loc'[p] # loc[p])
             => StepsLeft(loc'[p].pc) < StepsLeft(loc[p].pc)]_vars
    /\ [](\A p \in Procs :
             (loc[p] # NoCall /\ loc[p].pc = "done")
             => loc[p].result \in TypedResults)
    /\ [](AllReturned =>
             \A e \in Events, u \in Users :
                 /\ register(World, e, u).l.result \in TypedResults
                 /\ unregister(World, e, u).l.result \in TypedResults)

\* C26: every registration record has status confirmed or waitlisted, and a
\* waitlistPosition, a positive integer, if and only if it is waitlisted.
C26_PositionIffWaitlisted ==
    \A e \in EventIds, u \in UserIds :
        table.regs[e][u] # NoItem =>
            /\ Status(table, e, u) \in {"confirmed", "waitlisted"}
            /\ Position(table, e, u) >= 0
            /\ (Status(table, e, u) = "waitlisted") <=> (Position(table, e, u) # None)

\* C26's case: after concurrent Unregisters one record is what a promotion wrote
\* over a deleted registration (status and position alone) and another is still
\* waitlisted at position 2.
C26_Witness ==
    \E e \in Events, u, v \in Users :
        /\ \A p \in Procs : loc[p].op = "unregister" /\ loc[p].result = "200"
        /\ table.regs[e][u] # NoItem
        /\ "eventId" \notin DOMAIN table.regs[e][u]
        /\ Status(table, e, v) = "waitlisted" /\ Position(table, e, v) = 2

\* C27: when a confirmed user unregisters and two waitlisted registrations of the
\* event have the same waitlistPosition, the one promoted is not the one of them
\* with the later registeredAt.
C27_TieByRegisteredAt ==
    [][\A e \in Events, a, b \in Users :
          ( /\ last'.op = "unregister" /\ last'.event_id = e
            /\ last'.was_confirmed
            /\ Status(table, e, a) = "waitlisted"
            /\ Status(table, e, b) = "waitlisted"
            /\ Position(table, e, a) = Position(table, e, b)
            /\ RegisteredAt(table, e, a) < RegisteredAt(table, e, b) )
          => Status(table', e, b) # "confirmed"]_vars

\* C28: with calls run one at a time on an event of fixed capacity, after every
\* call an event with a waitlisted registration has confirmedCount = capacity,
\* and a Register made while somebody is waitlisted does not end confirmed.
C28_WaitlistOnlyWhenFull ==
    /\ [](\A e \in Events :
             WaitlistedUsers(table, e) # {} => Count(table, e) = Capacity(table, e))
    /\ [][\A e \in Events, u \in Users :
             ( /\ IsCall("register", e, u)
               /\ WaitlistedUsers(table, e) # {}
               /\ last'.result = "201" )
             => last'.reg_status = "waitlisted"]_vars

\* C28's case: a waitlisted user has unregistered from a full event, another user
\* is still waitlisted, behind a gap, and confirmedCount is still the capacity.
C28_Witness ==
    /\ last.op = "unregister" /\ last.result = "200" /\ ~last.was_confirmed
    /\ \E v \in Users :
          /\ Status(table, last.event_id, v) = "waitlisted"
          /\ Position(table, last.event_id, v) = 2
    /\ Cardinality(WaitlistedUsers(table, last.event_id)) = 1
    /\ Count(table, last.event_id) = Capacity(table, last.event_id)
    /\ Count(table, last.event_id) = Cardinality(ConfirmedUsers(table, last.event_id))

\* C29: an Unregister of the waitlisted head w and an Unregister of a confirmed
\* user c of the same event run concurrently: as the later of them returns there
\* is no registration record of w.
C29_UnregisterCreatesNoRecord ==
    [][\A e \in Events, p, q \in Procs :
          LET w == loc'[p].user_id
              c == loc'[q].user_id IN
          ( /\ LastReturns
            /\ \A r \in Procs \ {p, q} : loc'[r] = NoCall
            /\ loc'[p].op = "unregister" /\ loc'[p].event_id = e
            /\ loc'[q].op = "unregister" /\ loc'[q].event_id = e
            /\ Status(start', e, w) = "waitlisted"
            /\ \A v \in WaitlistedUsers(start', e) :
                  Position(start', e, w) <= Position(start', e, v)
            /\ Status(start', e, c) = "confirmed" )
          => table'.regs[e][w] = NoItem]_vars

\* ------------------------------------------------------------ main.py
\* The handlers of main.py work on the table directly.  Their get_item,
\* put_item, delete_item, update_item and query calls address the keys and write
\* the items that the repository's methods do, and are modelled by the same
\* operators on the table; what the handlers do with the answers is translated
\* here from main.py.

\* key=lambda x: x.get("waitlistPosition", 999)
MainSortKey(x) == Get(x, "waitlistPosition", SortDefault)

RECURSIVE MainInsertSorted(_, _)
MainInsertSorted(x, s) ==
    IF s = <<>> THEN <<x>>
    ELSE IF MainSortKey(x) < MainSortKey(Head(s)) THEN <<x>> \o s
    ELSE <<Head(s)>> \o MainInsertSorted(x, Tail(s))

RECURSIVE MainStableSort(_)
MainStableSort(s) ==
    IF s = <<>> THEN <<>>
    ELSE MainInsertSorted(s[Len(s)], MainStableSort(SubSeq(s, 1, Len(s) - 1)))

\* if existing_reg.get("Item")
ItemPresent(item) == item # NoItem

\* One store step of register_for_event.
RegisterForEventStep(w, l) ==
    LET tb == w.table
        e == l.event_id
        u == l.user_id IN
    CASE l.pc = "m_get_event" ->
           LET event_item == get_event_raw(tb, e) IN
           IF event_item = NoItem
           THEN [w |-> w, l |-> Return(l, "404 Event not found")]
           ELSE [w |-> w, l |-> [l EXCEPT !.event = event_item, !.pc = "m_get_user"]]
      [] l.pc = "m_get_user" ->
           IF tb.users[u] = NoItem
           THEN [w |-> w, l |-> Return(l, "404 User not found")]
           ELSE [w |-> w, l |-> [l EXCEPT !.pc = "m_get_registration"]]
      [] l.pc = "m_get_registration" ->
           LET existing_reg == tb.regs[e][u]
               capacity == Get(l.event, "eventCapacity", 0)
               reg_count == Get(l.event, "registrationCount", 0)
               waitlist_enabled == Get(l.event, "waitlistEnabled", FALSE) IN
           IF ItemPresent(existing_reg)
           THEN [w |-> w, l |-> Return(l, "400 Already registered")]
           ELSE IF reg_count < capacity
           THEN [w |-> [w EXCEPT !.clock = @ + 1],
                 l |-> [l EXCEPT !.reg_count = reg_count, !.now = w.clock,
                                 !.reg_status = "confirmed", !.waitlist_pos = None,
                                 !.new_reg_count = reg_count + 1,
                                 !.pc = "m_put_item"]]
           ELSE IF waitlist_enabled
           THEN [w |-> [w EXCEPT !.clock = @ + 1],
                 l |-> [l EXCEPT !.reg_count = reg_count, !.now = w.clock,
                                 !.reg_status = "waitlisted",
                                 !.pc = "m_query_waitlist"]]
           ELSE [w |-> w,
                 l |-> Return([l EXCEPT !.reg_count = reg_count], "400 Event is full")]
      [] l.pc = "m_query_waitlist" ->
           LET items == QueryFrom(tb, e, "waitlisted", 1) IN
           [w |-> w,
            l |-> [l EXCEPT !.waitlist_pos = Len(items) + 1,
                            !.new_reg_count = l.reg_count,
                            !.pc = "m_put_item"]]
      [] l.pc = "m_put_item" ->
           [w |-> [w EXCEPT !.table = create_registration(
                                 tb, e, u, l.reg_status, l.now, l.waitlist_pos)],
            l |-> IF l.reg_status = "confirmed"
                  THEN [l EXCEPT !.pc = "m_update_count"]
                  ELSE Return(l, "201")]
      [] l.pc = "m_update_count" ->
           [w |-> [w EXCEPT !.table = update_event_registration_count(
                                 tb, e, l.new_reg_count)],
            l |-> Return(l, "201")]

\* One store step of unregister_from_event.  first["SK"] is the key of the item
\* the query returned: REG# and the user id the item was put under.
UnregisterFromEventStep(w, l) ==
    LET tb == w.table
        e == l.event_id
        u == l.user_id IN
    CASE l.pc = "n_get_registration" ->
           LET reg_item == tb.regs[e][u] IN
           IF reg_item = NoItem
           THEN [w |-> w, l |-> Return(l, "400 Not registered for this event")]
           ELSE [w |-> w,
                 l |-> [l EXCEPT
                          !.was_confirmed =
                              (Get(reg_item, "registrationStatus", "") = "confirmed"),
                          !.pc = "n_delete_item"]]
      [] l.pc = "n_delete_item" ->
           [w |-> [w EXCEPT !.table = delete_registration(tb, e, u)],
            l |-> IF l.was_confirmed
                  THEN [l EXCEPT !.pc = "n_get_event"]
                  ELSE Return(l, "200")]
      [] l.pc = "n_get_event" ->
           LET event_item == get_event_raw(tb, e) IN
           IF event_item = NoItem
           THEN [w |-> w, l |-> Return(l, "200")]
           ELSE [w |-> w,
                 l |-> [l EXCEPT !.event = event_item,
                                 !.reg_count = Get(event_item, "registrationCount", 1),
                                 !.pc = "n_query_waitlist"]]
      [] l.pc = "n_query_waitlist" ->
           LET waitlisted == MainStableSort(QueryFrom(tb, e, "waitlisted", 1)) IN
           IF waitlisted # <<>>
           THEN [w |-> w,
                 l |-> [l EXCEPT !.first = waitlisted[1].userId,
                                 !.pc = "n_update_status"]]
           ELSE [w |-> w, l |-> [l EXCEPT !.pc = "n_update_count"]]
      [] l.pc = "n_update_status" ->
           [w |-> [w EXCEPT !.table = update_registration_status(
                                 tb, e, l.first, "confirmed", None)],
            l |-> Return(l, "200")]
      [] l.pc = "n_update_count" ->
           [w |-> [w EXCEPT !.table = update_event_registration_count(
                                 tb, e, Max(0, l.reg_count - 1))],
            l |-> Return(l, "200")]

MainStep(w, l) ==
    IF l.op = "register_for_event" THEN RegisterForEventStep(w, l)
    ELSE UnregisterFromEventStep(w, l)

RECURSIVE MainRun(_, _)
MainRun(w, l) ==
    IF l.pc = "done" THEN [w |-> w, l |-> l]
    ELSE LET r == MainStep(w, l) IN MainRun(r.w, r.l)

register_for_event(w, event_id, user_id) ==
    MainRun(w, NewCall("register_for_event", "m_get_event", event_id, user_id))

unregister_from_event(w, event_id, user_id) ==
    MainRun(w, NewCall("unregister_from_event", "n_get_registration",
                       event_id, user_id))

\* --- main.py serving the requests: whole calls one at a time while no call is
\* under way, and up to NProcs calls whose store calls interleave
MainRegister(event_id, user_id) ==
    /\ Quiet
    /\ clock < MaxClock
    /\ LET r == register_for_event(World, event_id, user_id) IN
       /\ table' = r.w.table
       /\ clock' = r.w.clock
    /\ UNCHANGED loc
    /\ UNCHANGED start

MainUnregister(event_id, user_id) ==
    /\ Quiet
    /\ LET r == unregister_from_event(World, event_id, user_id) IN
       /\ table' = r.w.table
       /\ clock' = r.w.clock
    /\ UNCHANGED loc
    /\ UNCHANGED start

BeginRegisterForEvent(p, event_id, user_id) ==
    /\ loc[p] = NoCall
    /\ LET r == MainStep(World, NewCall("register_for_event", "m_get_event",
                                        event_id, user_id)) IN
       /\ table' = r.w.table
       /\ clock' = r.w.clock
       /\ loc' = [loc EXCEPT ![p] = r.l]
    /\ start' = IF NoneBegun THEN table ELSE start

BeginUnregisterFromEvent(p, event_id, user_id) ==
    /\ loc[p] = NoCall
    /\ LET r == MainStep(World, NewCall("unregister_from_event", "n_get_registration",
                                        event_id, user_id)) IN
       /\ table' = r.w.table
       /\ clock' = r.w.clock
       /\ loc' = [loc EXCEPT ![p] = r.l]
    /\ start' = IF NoneBegun THEN table ELSE start

MainStoreStep(p) ==
    /\ loc[p].pc # "done"
    /\ LET r == MainStep(World, loc[p]) IN
       /\ table' = r.w.table
       /\ clock' = r.w.clock
       /\ loc' = [loc EXCEPT ![p] = r.l]
    /\ UNCHANGED start

NextMain ==
    \/ \E e \in Events, u \in Users :
        \/ MainRegister(e, u)
        \/ MainUnregister(e, u)
    \/ \E p \in Procs, e \in Events, u \in Users :
        \/ BeginRegisterForEvent(p, e, u)
        \/ BeginUnregisterFromEvent(p, e, u)
    \/ \E p \in Procs : MainStoreStep(p)

SpecMain == Init /\ [][NextMain]_vars

\* what a call answers: its response or error, and the status and position of
\* the registration it made
Outcome(l) == <<l.result, l.reg_status, l.waitlist_pos>>

\* the two implementations of a call agree from world w: the same outcome, the
\* same table and clock after it
SameCall(a, b) == Outcome(a.l) = Outcome(b.l) /\ a.w = b.w

\* every registration record of the table holds all the attributes put_item
\* writes
RecordsComplete ==
    \A e \in EventIds, u \in UserIds :
        table.regs[e][u] # NoItem => "eventId" \in DOMAIN table.regs[e][u]

\* C30: from every store state reached while no call is under way, a Register or
\* an Unregister call gives the same outcome and leaves the same store state
\* whether RegistrationService or the handler of main.py executes it; so a
\* sequence of calls does, call by call.
C30_LayeredEqualsMonolithic ==
    Quiet =>
        \A e \in EventIds, u \in UserIds :
            /\ SameCall(register(World, e, u), register_for_event(World, e, u))
            /\ SameCall(unregister(World, e, u), unregister_from_event(World, e, u))

\* the same where every record is complete
EqualOnCompleteRecords ==
    (Quiet /\ RecordsComplete) =>
        \A e \in EventIds, u \in UserIds :
            /\ SameCall(register(World, e, u), register_for_event(World, e, u))
            /\ SameCall(unregister(World, e, u), unregister_from_event(World, e, u))

====
